---- MODULE Spec2Model ----
(***************************************************************************)
(* Model of the indicator functions of streamlit_fibo_dax                  *)
(* (src/bot_streamlit.py, src/bot_streamlit_works.py):                     *)
(*   calculate_rsi, calculate_fibonacci_levels, search_value_in_columns    *)
(* and of main() of both scripts: fetch, enrichment of the fetched frame,   *)
(* search, row selection, Fibonacci levels and charts.                     *)
(*                                                                         *)
(* Numbers.  A pandas/numpy float is modelled as a record                  *)
(*   [k |-> "num", n, d]  the rational n/d, d > 0                          *)
(*   [k |-> "inf", ...]   +infinity  (x / 0 with x > 0)                    *)
(*   [k |-> "nan", ...]   NaN        (missing value, 0 / 0)                *)
(* Arithmetic is exact on rationals; binary rounding error of float64 and  *)
(* the sign of zero are not modelled.  Division by zero follows numpy: it  *)
(* never raises.                                                           *)
(***************************************************************************)
EXTENDS Integers, Sequences, FiniteSets, TLC

VARIABLES
    closes,      \* calculate_rsi: argument `data` (close prices)
    period,      \* calculate_rsi: argument `period`
    rsi,         \* calculate_rsi: the returned series
    rsiDone,     \* calculate_rsi has returned
    high,        \* calculate_fibonacci_levels: argument `high`
    low,         \* calculate_fibonacci_levels: argument `low`
    fib_levels,  \* calculate_fibonacci_levels: the returned dict (label -> price)
    fibDone,     \* calculate_fibonacci_levels has returned
    data,            \* search_value_in_columns: argument `data` (a DataFrame)
    value,           \* search_value_in_columns: argument `value`
    cols_to_search,  \* search_value_in_columns: argument `cols_to_search`
    tolerance,       \* search_value_in_columns: argument `tolerance` of the latest call
    result,          \* outcome of the latest call (a frame, or the raised KeyError)
    prev_tolerance,  \* `tolerance` of the call before the latest
    prev_result,     \* outcome of the call before the latest
    calls,           \* calls of search_value_in_columns made: 0, 1, or 2 for "two or more"
    pc,              \* main: the statement reached
    fetched,         \* main: the frame yf.download returned
    stock_data,      \* main: local `stock_data`
    value_to_search, \* main: the number_input widget
    slider,          \* main: local `tolerance` (the slider widget)
    selection,       \* main: local `cols_to_search` (the multiselect widget)
    found,           \* main: local `result`
    row_index,       \* main: the selectbox widget
    main_fib,        \* main: local `fib_levels` (<<>> models None)
    shown,           \* main: what the page shows, in order
    script           \* which script's main runs

rsiVars == <<closes, period, rsi, rsiDone>>
fibVars == <<high, low, fib_levels, fibDone>>
searchVars == <<data, value, cols_to_search, tolerance, result,
                prev_tolerance, prev_result, calls>>
mainVars == <<pc, fetched, stock_data, value_to_search, slider, selection,
              found, row_index, main_fib, shown, script>>
vars    == <<rsiVars, fibVars, searchVars, mainVars>>

-----------------------------------------------------------------------------
(* Bounds *)
MaxLen    == 5    \* longest enumerated close sequence
MaxClose  == 3    \* closes are drawn from 1..MaxClose
MaxPeriod == 3    \* periods are drawn from 1..MaxPeriod (and the default)
MaxHalf   == 4    \* Fibonacci anchors are drawn from k/2, k \in -MaxHalf..MaxHalf
MaxRows   == 2    \* rows of a searched frame
MaxSel    == 2    \* length of a column selection
MaxFetch  == 2    \* rows of a fetched frame

(* Program constants *)
DefaultPeriod == 14

-----------------------------------------------------------------------------
(* float64 values *)
NaN == [k |-> "nan", n |-> 0, d |-> 1]
Inf == [k |-> "inf", n |-> 1, d |-> 1]

RECURSIVE Gcd(_, _)
Gcd(a, b) == IF b = 0 THEN a ELSE Gcd(b, a % b)

Abs(x) == IF x < 0 THEN -x ELSE x

\* the rational n/d in lowest terms, d > 0
Num(n, d) ==
    LET g == Gcd(Abs(n), Abs(d))
        s == IF d < 0 THEN -1 ELSE 1
    IN  [k |-> "num", n |-> s * (n \div g), d |-> s * (d \div g)]

Flt(i) == [k |-> "num", n |-> i, d |-> 1]

IsNaN(x) == x.k = "nan"
IsNum(x) == x.k = "num"

\* comparisons: every comparison with NaN is False
FLt(x, y) ==
    CASE IsNaN(x) \/ IsNaN(y)  -> FALSE
      [] x.k = "inf"           -> FALSE
      [] y.k = "inf"           -> TRUE
      [] OTHER                 -> x.n * y.d < y.n * x.d
FEq(x, y) ==
    CASE IsNaN(x) \/ IsNaN(y)          -> FALSE
      [] x.k = "inf" \/ y.k = "inf"    -> x.k = y.k
      [] OTHER                         -> x.n * y.d = y.n * x.d
FLe(x, y) == FLt(x, y) \/ FEq(x, y)
FGt(x, y) == FLt(y, x)
FGe(x, y) == FLe(y, x)

\* n1/d1 + n2/d2 over the least common denominator, and (n1/d1) * (n2/d2)
\* reduced before multiplying, so that intermediate integers stay small
Sum(n1, d1, n2, d2) ==
    LET g == Gcd(d1, d2)
    IN  Num(n1 * (d2 \div g) + n2 * (d1 \div g), (d1 \div g) * d2)
Product(n1, d1, n2, d2) ==
    LET g1 == Gcd(Abs(n1), d2)
        g2 == Gcd(Abs(n2), d1)
    IN  Num((n1 \div g1) * (n2 \div g2), (d1 \div g2) * (d2 \div g1))

FNeg(x) == IF IsNum(x) THEN Num(-x.n, x.d) ELSE NaN   \* -inf is not needed
FAdd(x, y) ==
    CASE IsNaN(x) \/ IsNaN(y)        -> NaN
      [] x.k = "inf" \/ y.k = "inf"  -> Inf
      [] OTHER                       -> Sum(x.n, x.d, y.n, y.d)
\* x - y for finite y
FSub(x, y) ==
    CASE IsNaN(x) \/ IsNaN(y)  -> NaN
      [] y.k = "inf"           -> NaN
      [] x.k = "inf"           -> Inf
      [] OTHER                 -> Sum(x.n, x.d, -y.n, y.d)
FMul(x, y) ==
    CASE IsNaN(x) \/ IsNaN(y)        -> NaN
      [] x.k = "inf" \/ y.k = "inf"  -> IF (IsNum(x) /\ x.n = 0) \/ (IsNum(y) /\ y.n = 0)
                                        THEN NaN ELSE Inf
      [] OTHER                       -> Product(x.n, x.d, y.n, y.d)
\* numpy true division by a non-negative divisor: it never raises; x/0 is inf
\* for x > 0 and NaN for x = 0, x/inf is 0
FDiv(x, y) ==
    CASE IsNaN(x) \/ IsNaN(y)          -> NaN
      [] x.k = "inf" /\ y.k = "inf"    -> NaN
      [] x.k = "inf"                   -> Inf
      [] y.k = "inf"                   -> Flt(0)
      [] y.n = 0 /\ x.n = 0            -> NaN
      [] y.n = 0                       -> Inf
      [] OTHER                         -> Product(x.n, x.d, y.d, y.n)

-----------------------------------------------------------------------------
(* calculate_rsi, statement by statement *)

\* Series.diff(): position 1 has no predecessor
diff(s) == [i \in 1..Len(s) |-> IF i = 1 THEN NaN ELSE FSub(s[i], s[i - 1])]

\* delta.where(delta > 0, 0): keeps the value where the condition is True and
\* puts 0 wherever it is False -- NaN > 0 is False, so NaN becomes 0
gain_of(delta) ==
    [i \in 1..Len(delta) |-> IF FGt(delta[i], Flt(0)) THEN delta[i] ELSE Flt(0)]

\* -delta.where(delta < 0, 0)
loss_of(delta) ==
    [i \in 1..Len(delta) |-> FNeg(IF FLt(delta[i], Flt(0)) THEN delta[i] ELSE Flt(0))]

RECURSIVE FSum(_, _, _)
FSum(s, lo, hi) == IF lo > hi THEN Flt(0) ELSE FAdd(s[lo], FSum(s, lo + 1, hi))

\* Series.rolling(window=w, min_periods=w).mean(): the mean of the non-NaN
\* values among the last w positions, NaN when fewer than w of them exist
rolling_mean(s, w) ==
    [i \in 1..Len(s) |->
        LET lo  == IF i - w + 1 < 1 THEN 1 ELSE i - w + 1
            obs == {j \in lo..i : ~IsNaN(s[j])}
            val == [j \in lo..i |-> IF IsNaN(s[j]) THEN Flt(0) ELSE s[j]]
        IN  IF Cardinality(obs) < w THEN NaN
            ELSE FDiv(FSum(val, lo, i), Flt(Cardinality(obs)))]

avg_gain(series, p) == rolling_mean(gain_of(diff(series)), p)
avg_loss(series, p) == rolling_mean(loss_of(diff(series)), p)

\* rs = avg_gain / avg_loss   (element-wise float division)
rs_raw(series, p) ==
    [i \in 1..Len(series) |-> FDiv(avg_gain(series, p)[i], avg_loss(series, p)[i])]

\* rs.replace({0: 0.0001}): the entries of rs that EQUAL 0 become 0.0001
replace_zero(s) ==
    [i \in 1..Len(s) |-> IF FEq(s[i], Flt(0)) THEN Num(1, 10000) ELSE s[i]]

rs_of(series, p) == replace_zero(rs_raw(series, p))

\* rsi = 100 - (100 / (1 + rs))
calculate_rsi(series, p) ==
    LET rs == rs_of(series, p)
    IN  [i \in 1..Len(series) |->
            FSub(Flt(100), FDiv(Flt(100), FAdd(Flt(1), rs[i])))]

-----------------------------------------------------------------------------
(* Specification SpecRsi: one call of calculate_rsi on enumerated inputs *)

RECURSIVE SeqsUpTo(_, _)
SeqsUpTo(S, n) ==
    IF n = 0 THEN {<<>>}
    ELSE LET shorter == SeqsUpTo(S, n - 1)
         IN  shorter \cup {Append(s, x) : s \in {t \in shorter : Len(t) = n - 1}, x \in S}

ToFloats(s) == [i \in 1..Len(s) |-> Flt(s[i])]

\* the closes of the specification's end-to-end scenario
ScenarioCloses == <<10, 11, 12, 11, 10, 9, 10, 11, 12, 13, 14, 15, 16, 17, 18>>

RsiInputs ==
    {ToFloats(s) : s \in (SeqsUpTo(1..MaxClose, MaxLen) \ {<<>>}) \cup {ScenarioCloses}}

RsiPeriods == (1..MaxPeriod) \cup {DefaultPeriod}

-----------------------------------------------------------------------------
(* DataFrames: row labels, column names in order, a dtype and the cells of  *)
(* each column                                                              *)

Range(s) == {s[i] : i \in DOMAIN s}

\* pd.DataFrame()
EmptyFrame == [index |-> <<>>, order |-> <<>>, dtype |-> <<>>, cols |-> <<>>]

NRows(df)   == Len(df.index)
Columns(df) == Range(df.order)

\* pd.api.types.is_numeric_dtype
is_numeric_dtype(dt) == dt \in {"float64", "int64"}

\* data[mask]: the rows whose mask entry is True, labels and order kept, every
\* column kept
Keep(s, mask) ==
    LET F[i \in 0..Len(s)] ==
            IF i = 0 THEN <<>>
            ELSE IF mask[i] THEN Append(F[i - 1], s[i]) ELSE F[i - 1]
    IN  F[Len(s)]

boolean_index(df, mask) ==
    [index |-> Keep(df.index, mask),
     order |-> df.order,
     dtype |-> df.dtype,
     cols  |-> [c \in DOMAIN df.cols |-> Keep(df.cols[c], mask)]]

NoOutcome == [kind |-> "none", key |-> "", frame |-> EmptyFrame]

\* the variables of a function that the specification at hand does not call
SearchIdle ==
    /\ data = EmptyFrame /\ value = Flt(0) /\ cols_to_search = <<>>
    /\ tolerance = Flt(0) /\ result = NoOutcome
    /\ prev_tolerance = Flt(0) /\ prev_result = NoOutcome /\ calls = 0
RsiIdle == closes = <<>> /\ period = DefaultPeriod /\ rsi = <<>> /\ rsiDone = FALSE
FibIdle == high = Flt(0) /\ low = Flt(0) /\ fib_levels = <<>> /\ fibDone = FALSE
MainIdle ==
    /\ pc = "idle" /\ fetched = EmptyFrame /\ stock_data = EmptyFrame
    /\ value_to_search = Flt(0) /\ slider = Flt(0) /\ selection = <<>>
    /\ found = NoOutcome /\ row_index = 0 /\ main_fib = <<>> /\ shown = <<>>
    /\ script = "none"

InitRsi ==
    /\ closes \in RsiInputs
    /\ period \in RsiPeriods
    /\ rsi = <<>>
    /\ rsiDone = FALSE
    /\ FibIdle /\ SearchIdle /\ MainIdle

CallRsi ==
    /\ ~rsiDone
    /\ rsi' = calculate_rsi(closes, period)
    /\ rsiDone' = TRUE
    /\ UNCHANGED <<closes, period, fibVars, searchVars, mainVars>>

NextRsi == CallRsi

SpecRsi == InitRsi /\ [][NextRsi]_vars

-----------------------------------------------------------------------------
(* calculate_fibonacci_levels *)

retracement_ratios ==
    <<Num(236, 1000), Num(382, 1000), Num(5, 10), Num(618, 1000), Num(786, 1000)>>
extension_ratios ==
    <<Flt(1), Num(1236, 1000), Num(1382, 1000), Num(15, 10), Num(1618, 1000),
      Num(1786, 1000), Flt(2), Num(2618, 1000)>>

\* int(x): truncation toward zero
int(x) == IF x.n >= 0 THEN x.n \div x.d ELSE -((-x.n) \div x.d)

\* faulty variant: the percentage is rounded to the nearest integer
level_label_rounded(kind, ratio) ==
    kind \o " " \o ToString(int(FAdd(FMul(ratio, Flt(100)), Num(1, 2)))) \o "%"

\* f"Retracement {int(ratio * 100)}%" / f"Extension {int(ratio * 100)}%"
level_label(kind, ratio) ==
    kind \o " " \o ToString(int(FMul(ratio, Flt(100)))) \o "%"

\* low + (high - low) * ratio
retracement_price(h, l, ratio) == FAdd(l, FMul(FSub(h, l), ratio))

\* faulty variant: the range is taken as high + low
extension_price_sum(h, l, ratio) == FAdd(h, FMul(FAdd(h, l), FSub(ratio, Flt(1))))

\* high + (high - low) * (ratio - 1)
extension_price(h, l, ratio) == FAdd(h, FMul(FSub(h, l), FSub(ratio, Flt(1))))

\* a dict comprehension {label(r): price(r) for r in ratios}: one key per
\* distinct label, holding the price of the last ratio that yields the label
LastWith(kind, ratios, lab) ==
    CHOOSE i \in DOMAIN ratios :
        /\ level_label(kind, ratios[i]) = lab
        /\ \A j \in DOMAIN ratios : level_label(kind, ratios[j]) = lab => j <= i

retracement_levels(h, l) ==
    [lab \in {level_label("Retracement", r) : r \in Range(retracement_ratios)} |->
        retracement_price(h, l, retracement_ratios[LastWith("Retracement", retracement_ratios, lab)])]

extension_levels(h, l) ==
    [lab \in {level_label("Extension", r) : r \in Range(extension_ratios)} |->
        extension_price(h, l, extension_ratios[LastWith("Extension", extension_ratios, lab)])]

\* {**a, **b}: the keys of both, b's value where both have the key
DictMerge(a, b) == b @@ a

calculate_fibonacci_levels(h, l) ==
    DictMerge(retracement_levels(h, l), extension_levels(h, l))

-----------------------------------------------------------------------------
(* Specification SpecFib: one call of calculate_fibonacci_levels *)

FibInputs == {Num(k, 2) : k \in (-MaxHalf)..MaxHalf} \cup {Flt(100)}

InitFib ==
    /\ high \in FibInputs
    /\ low \in FibInputs
    /\ fib_levels = <<>>
    /\ fibDone = FALSE
    /\ RsiIdle /\ SearchIdle /\ MainIdle

CallFib ==
    /\ ~fibDone
    /\ fib_levels' = calculate_fibonacci_levels(high, low)
    /\ fibDone' = TRUE
    /\ UNCHANGED <<high, low, rsiVars, searchVars, mainVars>>

NextFib == CallFib

SpecFib == InitFib /\ [][NextFib]_vars

-----------------------------------------------------------------------------
(* search_value_in_columns *)

\* condition = None
NoCondition == [none |-> TRUE, mask |-> <<>>]

\* faulty variant: the upper end of the band is exclusive
col_condition_open(df, col, v, tol) ==
    [i \in 1..NRows(df) |->
        /\ FGe(df.cols[col][i], FSub(v, tol))
        /\ FLt(df.cols[col][i], FAdd(v, tol))]

\* faulty variant: the signs of the tolerance are swapped
col_condition_swapped(df, col, v, tol) ==
    [i \in 1..NRows(df) |->
        /\ FGe(df.cols[col][i], FAdd(v, tol))
        /\ FLe(df.cols[col][i], FSub(v, tol))]

\* (data[col] >= value - tolerance) & (data[col] <= value + tolerance)
col_condition(df, col, v, tol) ==
    [i \in 1..NRows(df) |->
        /\ FGe(df.cols[col][i], FSub(v, tol))
        /\ FLe(df.cols[col][i], FAdd(v, tol))]

\* condition = col_condition if condition is None else condition | col_condition
combine(condition, cc) ==
    [none |-> FALSE,
     mask |-> IF condition.none THEN cc
              ELSE [i \in DOMAIN cc |-> condition.mask[i] \/ cc[i]]]

\* faulty variant: a name that is no column is skipped like a non-numeric column
scan_column_lenient(df, col, v, tol, st) ==
    IF col \in Columns(df) /\ is_numeric_dtype(df.dtype[col])
    THEN [raised |-> FALSE, key |-> "",
          condition |-> combine(st.condition, col_condition(df, col, v, tol))]
    ELSE st

\* faulty variant: a non-numeric column contributes an all-False condition that is
\* intersected with the condition so far
scan_column_intersect(df, col, v, tol, st) ==
    IF col \notin Columns(df)
    THEN [raised |-> TRUE, key |-> col, condition |-> st.condition]
    ELSE IF is_numeric_dtype(df.dtype[col])
    THEN [raised |-> FALSE, key |-> "",
          condition |-> combine(st.condition, col_condition(df, col, v, tol))]
    ELSE [raised |-> FALSE, key |-> "",
          condition |-> [none |-> FALSE, mask |-> [i \in 1..NRows(df) |-> FALSE]]]

\* one iteration of the loop body for column `col`: data[col] raises KeyError
\* for a name that is no column; a non-numeric column is skipped
scan_column(df, col, v, tol, st) ==
    IF col \notin Columns(df)
    THEN [raised |-> TRUE, key |-> col, condition |-> st.condition]
    ELSE IF is_numeric_dtype(df.dtype[col])
    THEN [raised |-> FALSE, key |-> "",
          condition |-> combine(st.condition, col_condition(df, col, v, tol))]
    ELSE st

\* for col in cols_to_search: ... (the first raise ends the loop)
RECURSIVE scan(_, _, _, _, _, _)
scan(df, v, tol, cols, i, st) ==
    IF st.raised \/ i > Len(cols) THEN st
    ELSE scan(df, v, tol, cols, i + 1, scan_column(df, cols[i], v, tol, st))

search_value_in_columns(df, v, tol, cols) ==
    LET st == scan(df, v, tol, cols, 1,
                   [raised |-> FALSE, key |-> "", condition |-> NoCondition])
    IN  IF st.raised
        THEN [kind |-> "KeyError", key |-> st.key, frame |-> EmptyFrame]
        ELSE [kind |-> "frame", key |-> "",
              frame |-> IF st.condition.none THEN EmptyFrame
                        ELSE boolean_index(df, st.condition.mask)]

-----------------------------------------------------------------------------
(* Specification SpecSearch: calls of search_value_in_columns on one frame  *)
(* with the same value and selection and any tolerances                     *)

HighCells == {Flt(1), Flt(3), NaN}
LowCells  == {Flt(1), Flt(2)}
DateCells == {"2024-01-02"}

\* a frame with a float column High, a float column Low and an object column Date
SearchFrame(rows) ==
    [index |-> [i \in 1..Len(rows) |-> i - 1],
     order |-> <<"Date", "High", "Low">>,
     dtype |-> [c \in {"Date", "High", "Low"} |->
                   IF c = "Date" THEN "object" ELSE "float64"],
     cols  |-> [c \in {"Date", "High", "Low"} |-> [i \in 1..Len(rows) |-> rows[i][c]]]]

SearchRows == [Date : DateCells, High : HighCells, Low : LowCells]

\* "Foo" is a name that is no column of the frame
SelectableNames == {"Date", "High", "Low", "Foo"}

Selections ==
    {s \in SeqsUpTo(SelectableNames, MaxSel) :
        \A i, j \in DOMAIN s : i # j => s[i] # s[j]}

SearchValues == {Flt(1), Flt(2)}
Tolerances   == {Flt(0), Num(1, 2), Flt(1)}

InitSearch ==
    /\ data \in {SearchFrame(rows) : rows \in SeqsUpTo(SearchRows, MaxRows)}
    /\ value \in SearchValues
    /\ cols_to_search \in Selections
    /\ tolerance = Flt(0) /\ result = NoOutcome
    /\ prev_tolerance = Flt(0) /\ prev_result = NoOutcome /\ calls = 0
    /\ RsiIdle /\ FibIdle /\ MainIdle

CallSearch ==
    /\ \E tol \in Tolerances :
          /\ tolerance' = tol
          /\ result' = search_value_in_columns(data, value, tol, cols_to_search)
    /\ prev_tolerance' = tolerance
    /\ prev_result' = result
    /\ calls' = IF calls < 2 THEN calls + 1 ELSE 2
    /\ UNCHANGED <<data, value, cols_to_search, rsiVars, fibVars, mainVars>>

NextSearch == CallSearch

SpecSearch == InitSearch /\ [][NextSearch]_vars

-----------------------------------------------------------------------------
(* pandas operations used by main *)

\* DataFrame.round / Series.round(2): numpy rounds x * 100 to the nearest
\* integer, ties to the even one, and divides by 100; NaN and inf stay
round2(x) ==
    IF ~IsNum(x) THEN x
    ELSE LET scaled == 100 * x.n
             q      == scaled \div x.d
             r      == scaled % x.d
             up     == (2 * r > x.d) \/ (2 * r = x.d /\ q % 2 = 1)
         IN  Num(IF up THEN q + 1 ELSE q, 100)

series_round2(s) == [i \in DOMAIN s |-> round2(s[i])]

\* df[name] = values: an existing column is overwritten in place, a new one
\* is appended after the last column
set_column(df, name, dt, values) ==
    [index |-> df.index,
     order |-> IF name \in Columns(df) THEN df.order ELSE Append(df.order, name),
     dtype |-> [c \in Columns(df) \cup {name} |-> IF c = name THEN dt ELSE df.dtype[c]],
     cols  |-> [c \in Columns(df) \cup {name} |-> IF c = name THEN values ELSE df.cols[c]]]

\* stock_data.reset_index(inplace=True); stock_data['Date'] = stock_data['Date'].dt.date
\* the DatetimeIndex becomes the first column, the rows are labelled 0..n-1
reset_index(df) ==
    [index |-> [i \in 1..NRows(df) |-> i - 1],
     order |-> <<"Date">> \o df.order,
     dtype |-> [c \in Columns(df) \cup {"Date"} |->
                   IF c = "Date" THEN "object" ELSE df.dtype[c]],
     cols  |-> [c \in Columns(df) \cup {"Date"} |->
                   IF c = "Date" THEN [i \in 1..NRows(df) |-> df.index[i].date]
                   ELSE df.cols[c]]]

\* Series.shift(1)
shift1(s) == [i \in DOMAIN s |-> IF i = 1 THEN NaN ELSE s[i - 1]]

\* Series.pct_change(): s / s.shift(1) - 1
pct_change(s) == [i \in DOMAIN s |-> FSub(FDiv(s[i], shift1(s)[i]), Flt(1))]

series_times(s, k) == [i \in DOMAIN s |-> FMul(s[i], k)]
series_minus(s, t) == [i \in DOMAIN s |-> FSub(s[i], t[i])]

\* Series.ewm(span=span, adjust=False).mean():
\* y[1] = x[1], y[t] = (1 - alpha) * y[t-1] + alpha * x[t], alpha = 2 / (span + 1)
ewm_mean(s, span) ==
    LET alpha == Num(2, span + 1)
        Y[i \in 0..Len(s)] ==
            IF i = 0 THEN NaN
            ELSE IF i = 1 THEN s[1]
            ELSE FAdd(FMul(FSub(Flt(1), alpha), Y[i - 1]), FMul(alpha, s[i]))
    IN  [i \in DOMAIN s |-> Y[i]]

\* stock_data.select_dtypes(include=['float', 'int']).columns, in column order
numeric_columns(df) == SelectSeq(df.order, LAMBDA c : is_numeric_dtype(df.dtype[c]))

\* for col in <numeric columns>: stock_data[col] = stock_data[col].round(2)
RECURSIVE round_columns(_, _, _)
round_columns(df, names, i) ==
    IF i > Len(names) THEN df
    ELSE round_columns(
             set_column(df, names[i], df.dtype[names[i]], series_round2(df.cols[names[i]])),
             names, i + 1)

-----------------------------------------------------------------------------
(* main() of src/bot_streamlit.py and of src/bot_streamlit_works.py, one     *)
(* action per statement group; a statement group that only one of the two   *)
(* scripts has is guarded by `script`                                       *)

Full   == "bot_streamlit.py"
Works  == "bot_streamlit_works.py"
Scripts == {Full, Works}

BaseColumns == {"Open", "High", "Low", "Close", "Volume"}

\* fetched closes are 10.000 + 0.013 * k
Price(k) == Num(10000 + 13 * k, 1000)
Ticks    == {0, 1}
Volumes  == {1000000, 3500000}

\* a daily bar closing at tick c with volume v
Bar(c, v) ==
    [Open |-> Price(c), High |-> FAdd(Price(c), Num(4, 1000)),
     Low |-> FSub(Price(c), Num(2, 1000)), Close |-> Price(c), Volume |-> Flt(v)]

\* what yf.download can return: a frame indexed by timestamps with the OHLCV
\* columns, possibly without rows
Download(bars) ==
    [index |-> [i \in 1..Len(bars) |-> [date |-> i, time |-> 0]],
     order |-> <<"Open", "High", "Low", "Close", "Volume">>,
     dtype |-> [c \in BaseColumns |-> IF c = "Volume" THEN "int64" ELSE "float64"],
     cols  |-> [c \in BaseColumns |-> [i \in 1..Len(bars) |-> bars[i][c]]]]

Downloads ==
    {Download(bars) :
        bars \in SeqsUpTo({Bar(c, v) : c \in Ticks, v \in Volumes}, MaxFetch)}

\* the values the widgets can take (number_input is free, its default is 0.0;
\* the slider runs from 0.0 to 50.0 in steps of 1.0, its default is 10.0)
NumberInputs == {Flt(0), Flt(10), Num(1001, 100), Flt(1000000)}
SliderValues == {Flt(0), Flt(1), Flt(10)}

\* available_cols: the numeric columns of stock_data, in column order
available_cols(df) == numeric_columns(df)

\* the multiselect: nothing, one option, or the default (every option)
MultiSelect(options) ==
    {<<>>, options} \cup {<<options[i]>> : i \in DOMAIN options}

InitMain ==
    /\ pc = "start" /\ fetched = EmptyFrame /\ stock_data = EmptyFrame
    /\ value_to_search = Flt(0) /\ slider = Flt(10) /\ selection = <<>>
    /\ found = NoOutcome /\ row_index = 0 /\ main_fib = <<>> /\ shown = <<>>
    /\ script \in Scripts
    /\ RsiIdle /\ FibIdle /\ SearchIdle

Idle == UNCHANGED <<rsiVars, fibVars, searchVars, script>>

\* if ticker: -- an empty ticker ends the run
NoTicker ==
    /\ pc = "start"
    /\ pc' = "done"
    /\ UNCHANGED <<fetched, stock_data, value_to_search, slider, selection,
                   found, row_index, main_fib, shown>>
    /\ Idle

\* stock_data = yf.download(...)
Fetch ==
    /\ pc = "start"
    /\ \E df \in Downloads : fetched' = df /\ stock_data' = df
    /\ pc' = "fetched"
    /\ UNCHANGED <<value_to_search, slider, selection, found, row_index,
                   main_fib, shown>>
    /\ Idle

\* if stock_data.empty: st.error(...); return
EmptyFetch ==
    /\ pc = "fetched" /\ NRows(stock_data) = 0
    /\ shown' = Append(shown, "error: No data available for the given ticker.")
    /\ pc' = "done"
    /\ UNCHANGED <<fetched, stock_data, value_to_search, slider, selection,
                   found, row_index, main_fib>>
    /\ Idle

\* a statement group that only rewrites stock_data
Enrich(from, to, df) ==
    /\ pc = from
    /\ stock_data' = df
    /\ pc' = to
    /\ UNCHANGED <<fetched, value_to_search, slider, selection, found,
                   row_index, main_fib, shown>>
    /\ Idle

ResetIndex ==
    /\ NRows(stock_data) > 0
    /\ Enrich("fetched", "clean", reset_index(stock_data))

\* stock_data['% Difference'] = stock_data['Close'].pct_change() * 100
with_pct_difference(df) ==
    set_column(df, "% Difference", "float64",
               series_times(pct_change(df.cols["Close"]), Flt(100)))
PctDifference == Enrich("clean", "pct", with_pct_difference(stock_data))

\* faulty variant: the difference is stored in the Close column
with_price_difference_inplace(df) ==
    set_column(df, "Close", "float64",
               series_round2(series_minus(df.cols["Close"], shift1(df.cols["Close"]))))

\* stock_data['Price Difference'] = (Close - Close.shift(1)).round(2)
with_price_difference(df) ==
    set_column(df, "Price Difference", "float64",
               series_round2(series_minus(df.cols["Close"], shift1(df.cols["Close"]))))
PriceDifference ==
    /\ script = Full
    /\ Enrich("pct", "pricediff", with_price_difference(stock_data))

\* bot_streamlit_works.py: stock_data['Price Difference'] = (High - Low).round(2)
with_price_range(df) ==
    set_column(df, "Price Difference", "float64",
               series_round2(series_minus(df.cols["High"], df.cols["Low"])))
PriceRange ==
    /\ script = Works
    /\ Enrich("pct", "pricediff", with_price_range(stock_data))

\* stock_data['Volume Difference'] = (Volume.diff() / 1e6).round(2)
\* stock_data['% Volume Difference'] = (Volume.pct_change() * 100).round(2)
with_volume_difference(df) ==
    LET vol == df.cols["Volume"]
        d1  == set_column(df, "Volume Difference", "float64",
                   series_round2([i \in DOMAIN vol |-> FDiv(diff(vol)[i], Flt(1000000))]))
    IN  set_column(d1, "% Volume Difference", "float64",
                   series_round2(series_times(pct_change(vol), Flt(100))))
VolumeDifference == Enrich("pricediff", "voldiff", with_volume_difference(stock_data))

\* stock_data['RSI'] = calculate_rsi(stock_data['Close'], period=14).round(2)
with_rsi(df) ==
    set_column(df, "RSI", "float64",
               series_round2(calculate_rsi(df.cols["Close"], DefaultPeriod)))
Rsi ==
    /\ script = Full
    /\ Enrich("voldiff", "rsi", with_rsi(stock_data))

\* stock_data['EMA5'|'EMA14'|'EMA26'] = Close.ewm(span=.., adjust=False).mean().round(2)
with_emas(df) ==
    LET close == df.cols["Close"]
        e5    == set_column(df, "EMA5", "float64", series_round2(ewm_mean(close, 5)))
        e14   == set_column(e5, "EMA14", "float64", series_round2(ewm_mean(close, 14)))
    IN  set_column(e14, "EMA26", "float64", series_round2(ewm_mean(close, 26)))
Emas == Enrich("rsi", "ema", with_emas(stock_data))

\* for col in stock_data.select_dtypes(include=['float', 'int']).columns:
\*     stock_data[col] = stock_data[col].round(2)
format_numeric(df) == round_columns(df, numeric_columns(df), 1)
Format == Enrich("ema", "formatted", format_numeric(stock_data))

\* bot_streamlit_works.py: for col in stock_data.select_dtypes(include='number').columns:
\*     stock_data[col] = stock_data[col].round(2)
FormatWorks ==
    /\ script = Works
    /\ Enrich("voldiff", "rounded", format_numeric(stock_data))

\* f"{x:.2f}%"
Digit(n) == ToString(n)
format_percent(x) ==
    CASE IsNaN(x)     -> "nan%"
      [] x.k = "inf"  -> "inf%"
      [] OTHER ->
            LET r     == round2(x)
                cents == r.n * (100 \div r.d)
                a     == Abs(cents)
            IN  (IF cents < 0 THEN "-" ELSE "") \o ToString(a \div 100) \o "."
                    \o Digit((a % 100) \div 10) \o Digit(a % 10) \o "%"

\* stock_data[name] = stock_data[name].map(lambda x: f"{x:.2f}%"): the column
\* becomes a column of strings
as_percent_strings(df, name) ==
    set_column(df, name, "object",
               [i \in DOMAIN df.cols[name] |-> format_percent(df.cols[name][i])])

\* bot_streamlit_works.py: the two percentage columns become strings and the
\* frame is shown
Preview ==
    /\ script = Works /\ pc = "rounded"
    /\ stock_data' = as_percent_strings(as_percent_strings(stock_data, "% Difference"),
                                        "% Volume Difference")
    /\ shown' = Append(shown, "data preview")
    /\ pc' = "formatted"
    /\ UNCHANGED <<fetched, value_to_search, slider, selection, found,
                   row_index, main_fib>>
    /\ Idle

\* the sidebar widgets: value, tolerance and the columns to search in
Widgets ==
    /\ script = Full /\ pc = "formatted"
    /\ value_to_search' \in NumberInputs
    /\ slider' \in SliderValues
    /\ selection' \in MultiSelect(available_cols(stock_data))
    /\ pc' = "inputs"
    /\ UNCHANGED <<fetched, stock_data, found, row_index, main_fib, shown>>
    /\ Idle

\* bot_streamlit_works.py: the multiselect offers "All" before the numeric
\* columns and selects everything by default; "All" stands for every numeric
\* column
MultiSelectAll(options) ==
    {<<>>, <<"All">>, <<"All">> \o options} \cup {<<options[i]>> : i \in DOMAIN options}

resolve_all(chosen, options) ==
    IF "All" \in Range(chosen) THEN options ELSE chosen

SelectColumns ==
    /\ script = Works /\ pc = "formatted"
    /\ \E chosen \in MultiSelectAll(available_cols(stock_data)) :
          selection' = resolve_all(chosen, available_cols(stock_data))
    /\ pc' = "columns"
    /\ UNCHANGED <<fetched, stock_data, value_to_search, slider, found,
                   row_index, main_fib, shown>>
    /\ Idle

\* bot_streamlit_works.py: if not cols_to_search: st.error(...); st.stop()
StopWorks ==
    /\ pc = "columns" /\ selection = <<>>
    /\ shown' = Append(shown, "error: Please select at least one column.")
    /\ pc' = "done"
    /\ UNCHANGED <<fetched, stock_data, value_to_search, slider, selection,
                   found, row_index, main_fib>>
    /\ Idle

\* bot_streamlit_works.py: value and tolerance are asked for after the columns;
\* the slider runs from 0.0 to 50.0 in steps of 5.0, its default is 10.0
SliderValuesWorks == {Flt(0), Flt(5), Flt(10)}

WidgetsWorks ==
    /\ pc = "columns" /\ selection # <<>>
    /\ value_to_search' \in NumberInputs
    /\ slider' \in SliderValuesWorks
    /\ pc' = "inputs"
    /\ UNCHANGED <<fetched, stock_data, selection, found, row_index, main_fib, shown>>
    /\ Idle

\* faulty variant: the error is shown but the run is not stopped, so the
\* search runs with the empty selection
StopContinues ==
    /\ script = Full /\ pc = "inputs" /\ selection = <<>>
    /\ shown' = Append(shown, "error: Please select at least one column to search.")
    /\ found' = search_value_in_columns(stock_data, value_to_search, slider, selection)
    /\ pc' = "searched"
    /\ UNCHANGED <<fetched, stock_data, value_to_search, slider, selection,
                   row_index, main_fib>>
    /\ Idle

\* if not cols_to_search: st.sidebar.error(...); st.stop()
Stop ==
    /\ script = Full /\ pc = "inputs" /\ selection = <<>>
    /\ shown' = Append(shown, "error: Please select at least one column to search.")
    /\ pc' = "done"
    /\ UNCHANGED <<fetched, stock_data, value_to_search, slider, selection,
                   found, row_index, main_fib>>
    /\ Idle

\* result = search_value_in_columns(stock_data, value_to_search, tolerance, cols_to_search)
Search ==
    /\ pc = "inputs" /\ selection # <<>>
    /\ found' = search_value_in_columns(stock_data, value_to_search, slider, selection)
    /\ pc' = "searched"
    /\ UNCHANGED <<fetched, stock_data, value_to_search, slider, selection,
                   row_index, main_fib, shown>>
    /\ Idle

\* if result.empty: st.write("No matches found.")
NoMatch ==
    /\ pc = "searched" /\ NRows(found.frame) = 0
    /\ shown' = Append(shown, "No matches found.")
    /\ pc' = IF script = Full THEN "plot" ELSE "done"
    /\ UNCHANGED <<fetched, stock_data, value_to_search, slider, selection,
                   found, row_index, main_fib>>
    /\ Idle

\* else: st.dataframe(result); row_index = st.selectbox(..., options=result.index)
SelectRow ==
    /\ pc = "searched" /\ NRows(found.frame) > 0
    /\ row_index' \in Range(found.frame.index)
    /\ shown' = Append(shown, "search results")
    /\ pc' = "selected"
    /\ UNCHANGED <<fetched, stock_data, value_to_search, slider, selection,
                   found, main_fib>>
    /\ Idle

\* faulty variant: the first returned row is taken whatever row was selected
loc_first(df, label, col) == df.cols[col][1]

\* result.loc[row_index][col]
loc(df, label, col) ==
    LET i == CHOOSE j \in 1..NRows(df) : df.index[j] = label
    IN  df.cols[col][i]

\* fib_levels = calculate_fibonacci_levels(selected_row['High'], selected_row['Low'])
\* and the table of the levels
Fibonacci ==
    /\ pc = "selected"
    /\ main_fib' = calculate_fibonacci_levels(loc(found.frame, row_index, "High"),
                                              loc(found.frame, row_index, "Low"))
    /\ shown' = Append(shown, "fibonacci levels")
    /\ pc' = "plot"
    /\ UNCHANGED <<fetched, stock_data, value_to_search, slider, selection,
                   found, row_index>>
    /\ Idle

\* bot_streamlit_works.py: the candlestick chart with the Fibonacci lines,
\* drawn in the branch that computed the levels
PlotWorks ==
    /\ script = Works /\ pc = "plot"
    /\ shown' = shown \o <<"chart", "fibonacci lines">>
    /\ pc' = "done"
    /\ UNCHANGED <<fetched, stock_data, value_to_search, slider, selection,
                   found, row_index, main_fib>>
    /\ Idle

\* the candlestick chart with the EMAs, the Fibonacci lines if fib_levels is
\* set, and the RSI chart
Plot ==
    /\ script = Full /\ pc = "plot"
    /\ shown' = shown \o (IF main_fib # <<>> THEN <<"chart", "fibonacci lines", "rsi chart">>
                          ELSE <<"chart", "rsi chart">>)
    /\ pc' = "done"
    /\ UNCHANGED <<fetched, stock_data, value_to_search, slider, selection,
                   found, row_index, main_fib>>
    /\ Idle

Next ==
    \/ NoTicker \/ Fetch \/ EmptyFetch \/ ResetIndex
    \/ PctDifference \/ PriceDifference \/ PriceRange \/ VolumeDifference
    \/ Rsi \/ Emas \/ Format \/ FormatWorks \/ Preview
    \/ Widgets \/ Stop \/ SelectColumns \/ StopWorks \/ WidgetsWorks
    \/ Search \/ NoMatch \/ SelectRow \/ Fibonacci \/ Plot \/ PlotWorks

Spec == InitMain /\ [][Next]_vars

-----------------------------------------------------------------------------
(* Claims about calculate_rsi (checked under SpecRsi) *)

Positions == 1..Len(rsi)

\* C1: every defined value returned by calculate_rsi lies strictly between 0
\* and 100 (never exactly 0, never exactly 100).
C1_RsiStrictlyInside ==
    rsiDone =>
        \A i \in Positions :
            ~IsNaN(rsi[i]) => FLt(Flt(0), rsi[i]) /\ FLt(rsi[i], Flt(100))

\* C2: calculate_rsi returns an undefined value at each of the first `period`
\* positions (0-based indices 0..period-1, here positions 1..period), so the
\* first defined value is at 0-based index `period`.
C2_FirstPeriodUndefined ==
    rsiDone =>
        \A i \in Positions : i <= period => IsNaN(rsi[i])

StrictlyIncreasing(s) == \A i \in 2..Len(s) : FLt(s[i - 1], s[i])

\* the value the claim gives for a position whose average loss is 0
EpsilonRs(i)  == FDiv(avg_gain(closes, period)[i], Num(1, 10000))
EpsilonRsi(i) == FSub(Flt(100), FDiv(Flt(100), FAdd(Flt(1), EpsilonRs(i))))

\* C3: wherever the trailing average loss is 0 it is replaced by 0.0001 before
\* the division, so rs = avg_gain / 0.0001; hence on a strictly increasing
\* sequence of length >= period + 1 every defined RSI value equals
\* 100 - 100 / (1 + avg_gain / 0.0001), which is below 100.
C3_EpsilonSubstitution ==
    rsiDone =>
        /\ \A i \in Positions :
              FEq(avg_loss(closes, period)[i], Flt(0)) =>
                  FEq(rs_of(closes, period)[i], EpsilonRs(i))
        /\ (StrictlyIncreasing(closes) /\ Len(closes) >= period + 1) =>
              \A i \in Positions :
                  ~IsNaN(rsi[i]) =>
                      FEq(rsi[i], EpsilonRsi(i)) /\ FLt(rsi[i], Flt(100))

-----------------------------------------------------------------------------
(* Claims about calculate_fibonacci_levels (checked under SpecFib) *)

Within(x, target, tol) ==
    FLe(FSub(target, tol), x) /\ FLe(x, FAdd(target, tol))

\* C4: the labels carry the ratio times 100 rounded, so that
\* calculate_fibonacci_levels(100, 0) has the key "Retracement 61.8%" with
\* value 61.8 (within 0.01) and the key "Extension 161.8%" with value 161.8
\* (within 0.01).
C4_GoldenRatioLabels ==
    (fibDone /\ FEq(high, Flt(100)) /\ FEq(low, Flt(0))) =>
        /\ "Retracement 61.8%" \in DOMAIN fib_levels
        /\ Within(fib_levels["Retracement 61.8%"], Num(618, 10), Num(1, 100))
        /\ "Extension 161.8%" \in DOMAIN fib_levels
        /\ Within(fib_levels["Extension 161.8%"], Num(1618, 10), Num(1, 100))

TruncatedLabels ==
    {"Retracement 23%", "Retracement 38%", "Retracement 50%", "Retracement 61%",
     "Retracement 78%", "Extension 100%", "Extension 123%", "Extension 138%",
     "Extension 150%", "Extension 161%", "Extension 178%", "Extension 200%",
     "Extension 261%"}

\* C4 (amended): the labels carry the ratio times 100 truncated to an integer,
\* so that calculate_fibonacci_levels(100, 0) has the key "Retracement 61%"
\* with value 61.8 and the key "Extension 161%" with value 161.8 (within 0.01).
C4_TruncatedLabels ==
    fibDone =>
        /\ DOMAIN fib_levels = TruncatedLabels
        /\ (FEq(high, Flt(100)) /\ FEq(low, Flt(0))) =>
              /\ Within(fib_levels["Retracement 61%"], Num(618, 10), Num(1, 100))
              /\ Within(fib_levels["Extension 161%"], Num(1618, 10), Num(1, 100))

C4_Witness ==
    /\ fibDone /\ FEq(high, Flt(100)) /\ FEq(low, Flt(0))
    /\ "Retracement 61%" \in DOMAIN fib_levels

\* C10: calculate_fibonacci_levels(h, h) returns a level set (one level per
\* retracement and per extension ratio) in which every level equals h.
C10_DegenerateRangeFlat ==
    (fibDone /\ FEq(high, low)) =>
        /\ Cardinality(DOMAIN fib_levels) =
              Len(retracement_ratios) + Len(extension_ratios)
        /\ \A lab \in DOMAIN fib_levels : FEq(fib_levels[lab], high)

C10_Witness ==
    fibDone /\ FEq(high, low) /\ ~FEq(high, Flt(0)) /\ DOMAIN fib_levels # {}

-----------------------------------------------------------------------------
(* Claims about search_value_in_columns (checked under SpecSearch) *)

Called      == calls >= 1
AllKnown    == \A c \in Range(cols_to_search) : c \in Columns(data)
NumericSel  == {c \in Range(cols_to_search) :
                   c \in Columns(data) /\ is_numeric_dtype(data.dtype[c])}

\* row i of the searched frame has, in some selected numeric column, a value
\* in the inclusive band [v - tol, v + tol]
InBand(i, tol) ==
    \E c \in NumericSel :
        /\ FLe(FSub(value, tol), data.cols[c][i])
        /\ FLe(data.cols[c][i], FAdd(value, tol))

\* the labels of the rows of `data` that satisfy P, in series order
RowsWhere(P(_)) ==
    LET F[i \in 0..NRows(data)] ==
            IF i = 0 THEN <<>>
            ELSE IF P(i) THEN Append(F[i - 1], data.index[i]) ELSE F[i - 1]
    IN  F[NRows(data)]

\* row label `lab` of frame `out` carries the cells of the same label of `data`
SameRow(out, lab) ==
    \E i \in 1..NRows(data), j \in 1..NRows(out) :
        /\ data.index[i] = lab /\ out.index[j] = lab
        /\ \A c \in Columns(data) : out.cols[c][j] = data.cols[c][i]

\* C5: the call returns exactly the rows, in series order, for which some
\* selected numeric column has a value v with target - tolerance <= v <=
\* target + tolerance; with tolerance 0 these are the rows where some selected
\* column equals the target.
C5_InclusiveBandUnion ==
    (Called /\ AllKnown) =>
        /\ result.kind = "frame"
        /\ LET band(i) == InBand(i, tolerance)
           IN  result.frame.index = RowsWhere(band)
        /\ NumericSel # {} =>
              \A lab \in Range(result.frame.index) : SameRow(result.frame, lab)
        /\ FEq(tolerance, Flt(0)) =>
              LET exact(i) == \E c \in NumericSel : FEq(data.cols[c][i], value)
              IN  result.frame.index = RowsWhere(exact)

\* a row matched only at an end of the band, and a row that was left out
C5_Witness ==
    /\ Called /\ AllKnown /\ FGt(tolerance, Flt(0))
    /\ NRows(data) = MaxRows
    /\ Len(result.frame.index) = 1
    /\ \E i \in 1..NRows(data) :
          /\ data.index[i] \in Range(result.frame.index)
          /\ \A c \in NumericSel :
                \/ FEq(data.cols[c][i], FAdd(value, tolerance))
                \/ ~(FLe(FSub(value, tolerance), data.cols[c][i])
                       /\ FLe(data.cols[c][i], FAdd(value, tolerance)))

\* C6: with 0 <= t1 <= t2, every row returned with tolerance t1 is returned
\* with tolerance t2.
C6_MonotoneInTolerance ==
    (calls >= 2 /\ prev_result.kind = "frame" /\ result.kind = "frame") =>
        /\ FLe(prev_tolerance, tolerance) =>
              Range(prev_result.frame.index) \subseteq Range(result.frame.index)
        /\ FLe(tolerance, prev_tolerance) =>
              Range(result.frame.index) \subseteq Range(prev_result.frame.index)

\* the larger tolerance returned a row the smaller one did not
C6_Witness ==
    /\ calls >= 2 /\ FLt(prev_tolerance, tolerance)
    /\ prev_result.kind = "frame" /\ result.kind = "frame"
    /\ prev_result.frame.index # <<>>
    /\ Len(prev_result.frame.index) < Len(result.frame.index)

\* C7: an empty selection, or one without a numeric column, gives an empty
\* row set and no error; a selected non-numeric column neither adds a row nor
\* removes a row that matches in another selected column.
C7_NonNumericSkipped ==
    (Called /\ AllKnown) =>
        /\ result.kind = "frame"
        /\ NumericSel = {} => result.frame.index = <<>>
        /\ LET band(i) == InBand(i, tolerance)
           IN  \A i \in 1..NRows(data) :
                   band(i) <=> data.index[i] \in Range(result.frame.index)

\* a non-numeric column was selected after a numeric one that matched a row
C7_Witness ==
    /\ Called /\ AllKnown
    /\ Len(cols_to_search) = 2
    /\ cols_to_search[1] \in NumericSel
    /\ cols_to_search[2] \notin NumericSel
    /\ result.frame.index # <<>>

C7_WitnessEmpty ==
    /\ Called /\ AllKnown /\ cols_to_search # <<>> /\ NumericSel = {}
    /\ NRows(data) > 0 /\ result.kind = "frame"

\* C8: a selected name that is no column of the series makes the call end in
\* an error naming it, wherever the name stands in the selection; no row set
\* is returned.
C8_UnknownColumnRaises ==
    (Called /\ ~AllKnown) =>
        /\ result.kind = "KeyError"
        /\ result.key \in Range(cols_to_search) \ Columns(data)
        /\ result.frame = EmptyFrame

\* the unknown name stands after a numeric column that matches a row
C8_Witness ==
    /\ Called /\ ~AllKnown
    /\ Len(cols_to_search) = 2
    /\ cols_to_search[1] \in NumericSel
    /\ \E i \in 1..NRows(data) : InBand(i, tolerance)
    /\ result.kind = "KeyError"

-----------------------------------------------------------------------------
(* Claims about the enrichment in main (checked under Spec) *)

Fetched      == Columns(fetched) # {}
BeforeFormat == pc \in {"fetched", "clean", "pct", "pricediff", "voldiff", "rsi", "ema"}

\* C9: through the whole enrichment (the numeric formatting step included)
\* and through the search, the base columns Open, High, Low, Close and Volume
\* hold the fetched values: no base column is ever overwritten.
C9_BaseColumnsNeverOverwritten ==
    Fetched => \A c \in BaseColumns : stock_data.cols[c] = fetched.cols[c]

IsPrefix(s, t) == Len(s) <= Len(t) /\ \A i \in DOMAIN s : s[i] = t[i]

\* C9 (amended): the steps before the numeric formatting step and the search
\* leave the base columns equal to the fetched values and only append
\* columns; the formatting step overwrites every numeric column, the base
\* columns included, with its values rounded to two decimals, so from then on
\* the base columns hold the fetched values rounded to two decimals.
C9_BaseColumnsRoundedByFormat ==
    Fetched =>
        /\ \A c \in BaseColumns :
              stock_data.cols[c] =
                  IF BeforeFormat THEN fetched.cols[c] ELSE series_round2(fetched.cols[c])
        /\ \/ IsPrefix(fetched.order, stock_data.order)
           \/ IsPrefix(<<"Date">> \o fetched.order, stock_data.order)
        /\ found.kind = "frame" =>
              \A j \in 1..NRows(found.frame) : \A c \in BaseColumns :
                  found.frame.cols[c][j] =
                      round2(fetched.cols[c][found.frame.index[j] + 1])

\* the search has returned rows and a base value differs from the fetched one
C9_Witness ==
    /\ pc = "searched" /\ NRows(found.frame) > 0
    /\ \E c \in BaseColumns : stock_data.cols[c] # fetched.cols[c]

-----------------------------------------------------------------------------
(* Claims about the order of the steps of main (checked under Spec) *)

EnrichStages == {"fetched", "clean", "pct", "pricediff", "voldiff", "rsi", "ema",
                 "rounded", "formatted"}

\* the position of a statement in the order fetch, enrich, (widgets,) search,
\* row selection, Fibonacci computation, rendering of the charts
Stage(p) ==
    CASE p = "start"                   -> 0
      [] p \in EnrichStages            -> 1
      [] p \in {"columns", "inputs"}   -> 2
      [] p = "searched"                -> 3
      [] p = "selected"                -> 4
      [] p = "plot"                    -> 5
      [] OTHER                         -> 6

\* every derived column of the running script is in the frame
Enriched ==
    /\ {"% Difference", "Price Difference", "Volume Difference",
        "% Volume Difference"} \subseteq Columns(stock_data)
    /\ script = Full => {"RSI", "EMA5", "EMA14", "EMA26"} \subseteq Columns(stock_data)

\* the row of the search result that the selectbox chose
SelectedRows == {j \in 1..NRows(found.frame) : found.frame.index[j] = row_index}

\* the levels are those of the range [l, h]: the 100% extension is h and the
\* 50% retracement is the middle of l and h
LevelsOf(levels, h, l) ==
    /\ "Extension 100%" \in DOMAIN levels /\ "Retracement 50%" \in DOMAIN levels
    /\ FEq(levels["Extension 100%"], h)
    /\ FEq(FMul(levels["Retracement 50%"], Flt(2)), FAdd(h, l))

\* what holds in every state of a run
OrderState ==
    \* a search or a Fibonacci computation needs a non-empty fetch and a
    \* non-empty column selection
    /\ (found # NoOutcome \/ main_fib # <<>>) =>
          /\ NRows(fetched) > 0 /\ selection # <<>>
          /\ found.kind = "frame" /\ Enriched /\ Stage(pc) >= 3
    \* Fibonacci levels need a returned row that was selected, and are those
    \* of the High and Low of that row
    /\ main_fib # <<>> =>
          /\ Stage(pc) >= 5
          /\ Cardinality(SelectedRows) = 1
          /\ \A j \in SelectedRows :
                LevelsOf(main_fib, found.frame.cols["High"][j], found.frame.cols["Low"][j])
    \* Fibonacci lines are on the chart only if the levels were computed
    /\ (\E i \in DOMAIN shown : shown[i] = "fibonacci lines") =>
          main_fib # <<>> /\ pc = "done"
    \* a run that ended after an empty fetch or without a selected column
    \* made no search and computed no levels
    /\ (pc = "done" /\ (NRows(fetched) = 0 \/ selection = <<>>)) =>
          found = NoOutcome /\ main_fib = <<>>

\* what holds of every step of a run
OrderStep ==
    /\ Stage(pc') >= Stage(pc)
    \* the data is fetched first, and enriched before the widgets are read
    /\ pc # "start" => fetched' = fetched
    /\ Stage(pc) >= 2 => stock_data' = stock_data
    /\ found' # found =>
          /\ pc = "inputs" /\ pc' = "searched"
          /\ NRows(fetched) > 0 /\ selection # <<>> /\ Enriched
    /\ pc' = "selected" =>
          /\ pc = "searched" /\ NRows(found.frame) > 0
          /\ row_index' \in Range(found.frame.index)
    /\ main_fib' # main_fib => pc = "selected" /\ pc' = "plot"
    /\ (pc' = "plot" /\ pc = "searched") => NRows(found.frame) = 0 /\ main_fib' = <<>>

\* C11: in every run of main the steps come in the order fetch, enrich, search,
\* row selection, Fibonacci computation, rendering; Fibonacci levels are
\* computed, and Fibonacci lines drawn, only after a non-empty fetch, a search
\* with a non-empty column selection that returned a row, and the selection of
\* a returned row, from the High and Low of that row; a run with an empty fetch
\* or without a selected column stops before any search or Fibonacci
\* computation.
C11_StepOrder == []OrderState /\ [][OrderStep]_vars

\* the second of two returned rows was selected and its levels were drawn
C11_Witness ==
    /\ pc = "done" /\ main_fib # <<>>
    /\ NRows(found.frame) = 2 /\ row_index = found.frame.index[2]
    /\ found.frame.cols["High"][1] # found.frame.cols["High"][2]
    /\ \E i \in DOMAIN shown : shown[i] = "fibonacci lines"

====
